---- MODULE Spec2Model ----
(***************************************************************************)
(* Answer-key generation and option shuffling of the MCQ generator.        *)
(*                                                                         *)
(*   mcq-generator/lib/shuffle-quiz.ts         shuffleArray, shuffleQuiz   *)
(*   mcq-generator/lib/answer-randomization.ts generateRetrievalAnswer-    *)
(*                                             Sequence, validateAnswer-   *)
(*                                             Sequence                    *)
(*   mcq-generator/lib/openai.ts               generateAndShuffle-         *)
(*                                             RetrievalQuiz               *)
(*   unnamed/part_001, app/api/upload-images   the POST handlers that      *)
(*                                             upload images               *)
(*                                                                         *)
(* JavaScript arrays are modelled as sequences: the element the code calls *)
(* arr[k] is arr[k+1] here.  Loop indices, flatIndex, originalIndex and    *)
(* the numbers carried by error messages keep the 0-based values of the    *)
(* code.  Arrays that the claims compare by identity (the options arrays   *)
(* and the answer keys) live in a heap, a sequence of arrays indexed by    *)
(* address; 0 is the address of "not an array".                            *)
(***************************************************************************)
EXTENDS Integers, Sequences, FiniteSets, TLC

VARIABLES
    heap,              \* address -> array (options arrays, answer keys)
    quiz,              \* the argument of shuffleQuiz (refers to heap addresses)
    input0,            \* snapshot taken at the call: [heap, quiz] (for the frame claims)
    spc,               \* position in shuffleQuiz: "call", "map", "returned", "thrown", "idle"
    flatIndex,         \* shuffleQuiz: let flatIndex
    updatedAnswerKey,  \* shuffleQuiz: address of const updatedAnswerKey
    mapped,            \* questions returned so far by the map callback, flattened
    shuffled,          \* the callback's const shuffled, one tagged array per mapped question
    error,             \* the Error thrown, <<>> while none
    result             \* the value returned, <<>> while none

shuffleVars == <<heap, quiz, input0, spc, flatIndex, updatedAnswerKey, mapped, shuffled, error, result>>

VARIABLES
    length,            \* the length the caller of the generator asks for
    letters,           \* generateRetrievalAnswerSequence: const letters (the working array)
    gpc,               \* position in the generator: "start", "while", "for", "trim", "returned", "idle";
                       \* in a call of the validator alone: "validate", "validated"
    attempts,          \* let attempts
    hasConsecutive,    \* let hasConsecutive
    scanIndex,         \* let i of the scan (for loop of line 29)
    partner,           \* j of the inner loop when the latest scan step swapped (line 43), else 0
    sequence,          \* const sequence (the trimmed array), <<>> before the trim
    validation,        \* const validation (line 71) in a one-element sequence, empty while none
    regenerations,     \* depth of the recursive retry of line 74
    generated          \* the string returned, as its characters; <<>> while none

genVars == <<length, letters, gpc, attempts, hasConsecutive, scanIndex, partner, sequence, validation,
            regenerations, generated>>

VARIABLES
    topicCalls,        \* generateCompleteRetrievalQuiz: the three promises of topicPromises
    ppc,               \* position in generateAndShuffleRetrievalQuiz: "awaiting", "shuffling",
                       \* "returned", "failed", "idle"
    outOfOrder,        \* a topic call has settled while the call for an earlier image was pending
    originalQuiz,      \* const originalQuiz, <<>> while none
    output             \* the value the promise of generateAndShuffleRetrievalQuiz resolves to, <<>> while none

pipeVars == <<topicCalls, ppc, outOfOrder, originalQuiz, output>>

VARIABLES
    request,           \* the request and the environment of a route handler
    rpc,               \* position in the handler: "start", "uploading", "signing", "generating",
                       \* "cleanup", "catch", "emergency", "responded", "idle"
    storage,           \* the objects held by the object stores (R2 bucket, Vercel Blob)
    uploadedKey,       \* mini-quiz route: let uploadedKey, <<>> for null
    uploads,           \* upload-images route: the promises of uploadPromises, <<>> before the map
    deleteAttempts,    \* calls of deleteFromR2 made so far
    response           \* the response of the handler, <<>> while none

routeVars == <<request, rpc, storage, uploadedKey, uploads, deleteAttempts, response>>

vars == <<shuffleVars, genVars, pipeVars, routeVars>>

(***************************************************************************)
(* Bounds of the explored inputs.                                          *)
(***************************************************************************)
MaxTopics == 2        \* topics of an input quiz
MaxFlat == 2          \* questions of an input quiz, over all topics
RandomSamples == 2    \* values of Math.random() explored by the generator's shuffles
MaxRegenerations == 1 \* recursive retries of the generator that are followed
MaxEdits == 1         \* replaced entries of a sequence handed to the validator

(***************************************************************************)
(* shuffle-quiz.ts                                                         *)
(***************************************************************************)
LETTERS == <<"a", "b", "c", "d">>

letterToIndex == [a |-> 0, b |-> 1, c |-> 2, d |-> 3]

\* Property names every object literal inherits from Object.prototype; the
\* lookup letterToIndex[answerChar] finds them although they are not letters.
ObjectPrototypeNames == {"constructor"}

\* typeof letterToIndex[answerChar]
lookupType(answerChar) ==
    IF answerChar \in DOMAIN letterToIndex THEN "number"
    ELSE IF answerChar \in ObjectPrototypeNames THEN "function"
    ELSE "undefined"

\* a read that takes a for an entry past the end
keyAtOrA(answer_key, idx) ==
    IF idx < Len(answer_key) THEN answer_key[idx + 1] ELSE "a"

\* quiz.answer_key[flatIndex]; reading past the end yields undefined, which
\* the property lookup and the template string turn into "undefined"
keyAt(answer_key, idx) ==
    IF idx < Len(answer_key) THEN answer_key[idx + 1] ELSE "undefined"

\* a swap that overwrites arr[i] before it is read
swapLossy(arr, i, j) == [arr EXCEPT ![i + 1] = arr[j + 1]]

\* [arr[i], arr[j]] = [arr[j], arr[i]]   (0-based i, j)
swap(arr, i, j) == [arr EXCEPT ![i + 1] = arr[j + 1], ![j + 1] = arr[i + 1]]

\* Outcomes of Math.floor(Math.random() * (i + 1)) for i = n-1 .. 1
DrawSeqs(n) == {d \in [1..(n - 1) -> 0..(n - 1)] : \A i \in 1..(n - 1) : d[i] <= i}

RECURSIVE shuffleLoop(_, _, _)
shuffleLoop(arr, i, draw) ==
    IF i > 0 THEN shuffleLoop(swap(arr, i, draw[i]), i - 1, draw) ELSE arr

\* a loop that stops at i > 1: the last swap, of positions 1 and j, is left out
shuffleArrayStopEarly(items, draw) ==
    shuffleLoop(items, Len(items) - 1, [draw EXCEPT ![1] = 1])

\* Fisher-Yates on a copy: the argument is a value, the result a new one
shuffleArray(items, draw) == shuffleLoop(items, Len(items) - 1, draw)

NotFound == -1

\* a search that compares the option text instead of the original index
findIndexByText(arr, answerChar) ==
    LET correct == {k \in 1..Len(arr) :
                       /\ lookupType(answerChar) = "number"
                       /\ arr[k].originalIndex = letterToIndex[answerChar]}
        hits == {k \in 1..Len(arr) : \E c \in correct : arr[k].text = arr[c].text}
    IN  IF hits = {} THEN NotFound
        ELSE (CHOOSE k \in hits : \A m \in hits : k <= m) - 1

\* shuffled.findIndex((opt) => opt.originalIndex === correctOriginalIndex)
findIndex(arr, answerChar) ==
    LET hits == {k \in 1..Len(arr) :
                    /\ lookupType(answerChar) = "number"
                    /\ arr[k].originalIndex = letterToIndex[answerChar]}
    IN  IF hits = {} THEN NotFound
        ELSE (CHOOSE k \in hits : \A m \in hits : k <= m) - 1

\* question.options.map((text, idx) => ({ text, originalIndex: idx }))
optionsWithIndex(options) ==
    [idx \in 1..Len(options) |-> [text |-> options[idx], originalIndex |-> idx - 1]]

\* shuffled.map((opt) => opt.text)
texts(arr) == [k \in 1..Len(arr) |-> arr[k].text]

\* question.options = ...; return question: the input array is overwritten
withOptionsInPlace(h, question, newOptions) ==
    [heap |-> [h EXCEPT ![question.options] = newOptions],
     question |-> question]

\* { ...question, options: shuffled.map(...) }: a new question object that
\* refers to a newly allocated options array
withOptions(h, question, newOptions) ==
    [heap |-> Append(h, newOptions),
     question |-> [question EXCEPT !.options = Len(h) + 1]]

\* updatedAnswerKey.unshift(LETTERS[newCorrectIndex])
unshift(h, addr, newCorrectIndex) ==
    [h EXCEPT ![addr] = <<LETTERS[newCorrectIndex + 1]>> \o @]

\* updatedAnswerKey.push(LETTERS[newCorrectIndex])
push(h, addr, newCorrectIndex) ==
    [h EXCEPT ![addr] = Append(@, LETTERS[newCorrectIndex + 1])]

RECURSIVE flatten(_)
flatten(topics) ==
    IF topics = <<>> THEN <<>>
    ELSE Head(topics).questions \o flatten(Tail(topics))

RECURSIVE regroup(_, _)
\* { ...topic, questions } for every topic, in topic order
regroup(topics, questions) ==
    IF topics = <<>> THEN <<>>
    ELSE LET n == Len(Head(topics).questions)
         IN  <<[Head(topics) EXCEPT !.questions = SubSeq(questions, 1, n)]>>
             \o regroup(Tail(topics), SubSeq(questions, n + 1, Len(questions)))

isArray(h, addr) == addr \in 1..Len(h)

\* a check that only rejects more than 4 options
hasAtMostFourOptions(h, question) ==
    isArray(h, question.options) /\ Len(h[question.options]) <= 4

\* line 45: Array.isArray(question.options) && question.options.length === 4
hasFourOptions(h, question) ==
    isArray(h, question.options) /\ Len(h[question.options]) = 4

(***************************************************************************)
(* Input quizzes                                                           *)
(***************************************************************************)
OptionLists ==
    { <<"Paris", "London", "Paris", "Berlin">>,
      <<"Paris", "London", "Berlin">>,
      <<"Paris", "London", "Paris", "Berlin", "Rome">> }

BadSymbols == {"e", "constructor"}

TopicNames == [t \in 1..(MaxTopics + 1) |-> <<"Topic", t>>]

RECURSIVE sum(_)
sum(s) == IF s = <<>> THEN 0 ELSE Head(s) + sum(Tail(s))

\* questions per topic; topics without questions occur in the quizzes that
\* have fewer than MaxFlat questions
Shapes ==
    UNION { {s \in [1..n -> 0..MaxFlat] :
                /\ sum(s) <= MaxFlat
                /\ sum(s) = MaxFlat => \A t \in 1..n : s[t] > 0} : n \in 0..MaxTopics }

\* index of the first letter of the key patterns
KeyStarts == {0, 2}

\* a key of the given length without a bad entry: s, s+3, s+6, ... modulo 4
patternKey(len, s) == [p \in 1..len |-> LETTERS[((s + 3 * (p - 1)) % 4) + 1]]

\* keys one shorter than, as long as, and longer than the n questions, and the
\* same keys with a bad symbol at the position of one question
Keys(n) ==
    LET lens == {l \in (n - 1)..(n + 1) : l >= 0}
        good == {patternKey(l, s) : l \in lens, s \in KeyStarts}
        bad  == UNION { {[k EXCEPT ![p] = b] : p \in {q \in 1..Len(k) : q <= n}, b \in BadSymbols}
                        : k \in good }
    IN  good \cup bad

RECURSIVE buildTopics(_, _, _)
buildTopics(shape, t, next) ==
    IF t > Len(shape) THEN <<>>
    ELSE <<[name |-> TopicNames[t],
            questions |-> [q \in 1..shape[t] |->
                             [question |-> <<"Q", t, q>>, options |-> next + q - 1]]]>>
         \o buildTopics(shape, t + 1, next + shape[t])

RouteIdle ==
    /\ request = <<>>
    /\ rpc = "idle"
    /\ storage = {}
    /\ uploadedKey = <<>>
    /\ uploads = <<>>
    /\ deleteAttempts = 0
    /\ response = <<>>

PipeIdle ==
    /\ topicCalls = <<>>
    /\ ppc = "idle"
    /\ outOfOrder = FALSE
    /\ originalQuiz = <<>>
    /\ output = <<>>

GenIdle ==
    /\ length = 0
    /\ letters = <<>>
    /\ gpc = "idle"
    /\ attempts = 0
    /\ hasConsecutive = FALSE
    /\ scanIndex = 0
    /\ partner = 0
    /\ sequence = <<>>
    /\ validation = <<>>
    /\ regenerations = 0
    /\ generated = <<>>

InitShuffle ==
    /\ GenIdle
    /\ PipeIdle
    /\ RouteIdle
    /\ \E shape \in Shapes :
         \E opts \in [1..sum(shape) -> OptionLists] :
           \E key \in Keys(sum(shape)) :
             \E keyIsArray \in BOOLEAN :
               LET n == sum(shape)
               IN  /\ keyIsArray \/ key = patternKey(n, 0)
                   /\ heap = [a \in 1..(n + 1) |-> IF a <= n THEN opts[a] ELSE key]
                   /\ quiz = [title |-> "Retrieval Quiz",
                              topics |-> buildTopics(shape, 1, 1),
                              answer_key |-> IF keyIsArray THEN n + 1 ELSE 0]
    /\ input0 = [heap |-> heap, quiz |-> quiz]
    /\ spc = "call"
    /\ flatIndex = 0
    /\ updatedAnswerKey = 0
    /\ mapped = <<>>
    /\ shuffled = <<>>
    /\ error = <<>>
    /\ result = <<>>

throw(kind, symbol, number) ==
    /\ spc' = "thrown"
    /\ error' = <<[kind |-> kind, symbol |-> symbol, number |-> number]>>
    /\ UNCHANGED <<heap, quiz, input0, flatIndex, updatedAnswerKey, mapped, shuffled, result>>
    /\ UNCHANGED genVars
    /\ UNCHANGED routeVars
    /\ UNCHANGED pipeVars

\* { topics, answer_key: updatedAnswerKey }: the other fields of the quiz are lost
shuffledQuizWithoutSpread(q, questions, answer_key) ==
    [topics |-> regroup(q.topics, questions), answer_key |-> answer_key]

\* lines 89-96: { ...quiz, topics, answer_key: updatedAnswerKey }
shuffledQuiz(q, questions, answer_key) ==
    [q EXCEPT !.topics = regroup(q.topics, questions), !.answer_key = answer_key]

\* lines 35-41: the entry check and the two locals; a quiz without questions
\* runs through both maps at once and returns (lines 89-96)
Call ==
    /\ spc = "call"
    /\ IF ~isArray(heap, quiz.answer_key)
       THEN throw("NoArrays", "", 0)
       ELSE /\ heap' = Append(heap, <<>>)
            /\ updatedAnswerKey' = Len(heap) + 1
            /\ flatIndex' = 0
            /\ IF flatten(quiz.topics) = <<>>
               THEN /\ result' = <<shuffledQuiz(quiz, <<>>, updatedAnswerKey')>>
                    /\ spc' = "returned"
               ELSE /\ spc' = "map"
                    /\ UNCHANGED result
            /\ UNCHANGED <<quiz, input0, mapped, shuffled, error>>
            /\ UNCHANGED genVars
            /\ UNCHANGED routeVars
            /\ UNCHANGED pipeVars

\* lines 44-87: the map callback applied to the next question in flattened
\* order; after the last question both maps are done and the new quiz object
\* is returned (lines 89-96)
MapQuestion ==
    /\ spc = "map"
    /\ flatIndex < Len(flatten(quiz.topics))
    /\ LET question == flatten(quiz.topics)[flatIndex + 1]
           options == heap[question.options]
           answerChar == keyAt(heap[quiz.answer_key], flatIndex)
       IN  IF ~hasFourOptions(heap, question)
           THEN throw("NotFourOptions", "", flatIndex)
           ELSE IF lookupType(answerChar) = "undefined"
           THEN throw("InvalidKeyEntry", answerChar, flatIndex + 1)
           ELSE \E draw \in DrawSeqs(Len(options)) :
                  LET sh == shuffleArray(optionsWithIndex(options), draw)
                      newCorrectIndex == findIndex(sh, answerChar)
                  IN  IF newCorrectIndex = NotFound
                      THEN throw("NotLocated", "", flatIndex + 1)
                      ELSE LET out == withOptions(push(heap, updatedAnswerKey, newCorrectIndex),
                                                  question, texts(sh))
                           IN  /\ heap' = out.heap
                               /\ mapped' = Append(mapped, out.question)
                               /\ shuffled' = Append(shuffled, sh)
                               /\ flatIndex' = flatIndex + 1
                               /\ IF flatIndex' = Len(flatten(quiz.topics))
                                  THEN /\ result' = <<shuffledQuiz(quiz, mapped', updatedAnswerKey)>>
                                       /\ spc' = "returned"
                                  ELSE UNCHANGED <<spc, result>>
                               /\ UNCHANGED <<quiz, input0, updatedAnswerKey, error>>
                               /\ UNCHANGED genVars
                               /\ UNCHANGED routeVars
                               /\ UNCHANGED pipeVars

NextShuffle == Call \/ MapQuestion

SpecShuffle == InitShuffle /\ [][NextShuffle]_vars

(***************************************************************************)
(* answer-randomization.ts                                                 *)
(***************************************************************************)
LettersEach == 8       \* line 10: 8 of each letter
SequenceLength == 30   \* lines 68 and 91
maxAttempts == 100     \* line 22
MinCount == 7          \* line 113
MaxCount == 8          \* line 113

Alphabet == {"a", "b", "c", "d"}

\* lines 8-13: aaaaaaaabbbbbbbbccccccccdddddddd
initialLetters ==
    [k \in 1..(4 * LettersEach) |-> LETTERS[((k - 1) \div LettersEach) + 1]]

\* Math.random() takes the value r / RandomScale
RandomScale == 4 * LettersEach

\* The explored values of Math.random(): the largest one (every draw j = i),
\* 0 (every draw j = 0), 1/2, 1/4, ...  One value is held through the draws
\* of one shuffle loop.
RandomValues ==
    {RandomScale - 1, 0} \cup {RandomScale \div (2 ^ k) : k \in 1..(RandomSamples - 1)}

\* Math.floor(Math.random() * (i + 1)) for every index of an array of n elements
draws(r, n) == [k \in 1..(n - 1) |-> (r * (k + 1)) \div RandomScale]

\* a shuffle that writes letters[j] to letters[i] without writing letters[i] back
reshuffleOverwriting(arr, r) ==
    [k \in 1..Len(arr) |-> IF k = 1 THEN arr[1] ELSE arr[draws(r, Len(arr))[k - 1] + 1]]

\* lines 16-19 and 51-54: Fisher-Yates in place on letters
reshuffle(arr, r) == shuffleLoop(arr, Len(arr) - 1, draws(r, Len(arr)))

\* the tests of the inner loop without the comparison with letters[i]
canSwapIgnoringAtI(arr, k, j) ==
    /\ ~(j > 0 /\ arr[j] = arr[k + 2])
    /\ ~(j < Len(arr) - 1 /\ arr[j + 2] = arr[k + 2])

\* lines 37-41: j is a position to swap letters[i + 1] with
canSwap(arr, k, j) ==
    LET wouldCreateConsecutiveBefore == j > 0 /\ arr[j] = arr[k + 2]
        wouldCreateConsecutiveAfter == j < Len(arr) - 1 /\ arr[j + 2] = arr[k + 2]
        wouldCreateConsecutiveAtI == arr[k + 1] = arr[j + 1]
    IN  /\ ~wouldCreateConsecutiveBefore
        /\ ~wouldCreateConsecutiveAfter
        /\ ~wouldCreateConsecutiveAtI

\* an inner loop that takes any later position
swapPartnersUntested(arr, k) == (k + 2)..(Len(arr) - 1)

\* lines 35-47: the positions the inner loop would accept; it takes the first
swapPartners(arr, k) == {j \in (k + 2)..(Len(arr) - 1) : canSwap(arr, k, j)}

firstPartner(arr, k) ==
    CHOOSE j \in swapPartners(arr, k) : \A m \in swapPartners(arr, k) : j <= m

\* a trim that keeps one entry less
sliceOneLess(arr, from, to) == SubSeq(arr, from + 1, to - 1)

\* sequence.slice(0, 30)
slice(arr, from, to) ==
    SubSeq(arr, from + 1, IF to < Len(arr) THEN to ELSE Len(arr))

count(seq, letter) == Cardinality({k \in 1..Len(seq) : seq[k] = letter})

validationError(kind, at, letter, n) == [kind |-> kind, at |-> at, letter |-> letter, n |-> n]

\* lines 90-93
lengthErrors(seq) ==
    IF Len(seq) # SequenceLength
    THEN {validationError("length", 0, "", Len(seq))} ELSE {}

\* lines 95-100
consecutiveErrors(seq) ==
    {validationError("consecutive", k, seq[k + 1], 0) :
        k \in {m \in 0..(Len(seq) - 2) : seq[m + 1] = seq[m + 2]}}

\* lines 103-110: a letter for which counts[letter] is undefined; counts is an
\* object literal, so the names it inherits from Object.prototype are found
\* (counts[letter]++ then stores NaN under the name, which the comparisons of
\* line 113 let pass)
letterErrors(seq) ==
    {validationError("letter", k, seq[k + 1], 0) :
        k \in {m \in 0..(Len(seq) - 1) :
                  seq[m + 1] \notin Alphabet \cup ObjectPrototypeNames}}

\* lines 112-116
countErrors(seq) ==
    {validationError("count", 0, l, count(seq, l)) :
        l \in {m \in Alphabet : count(seq, m) < MinCount \/ count(seq, m) > MaxCount}}

verdict(errors) == [isValid |-> errors = {}, errors |-> errors]

\* a validation that forgets the scan for consecutive duplicates
validateWithoutConsecutive(seq) ==
    verdict(lengthErrors(seq) \cup letterErrors(seq) \cup countErrors(seq))

\* a validation that forgets the distribution check
validateWithoutCounts(seq) ==
    verdict(lengthErrors(seq) \cup consecutiveErrors(seq) \cup letterErrors(seq))

\* lines 84-122
validateAnswerSequence(seq) ==
    verdict(lengthErrors(seq) \cup consecutiveErrors(seq)
            \cup letterErrors(seq) \cup countErrors(seq))

RECURSIVE joinFrom(_, _, _)
joinFrom(seq, k, separator) ==
    IF k > Len(seq) THEN <<>>
    ELSE (IF k > 1 THEN separator ELSE <<>>) \o <<seq[k]>> \o joinFrom(seq, k + 1, separator)

\* sequence.join(): the default separator is a comma
joinDefault(seq) == joinFrom(seq, 1, <<",">>)

\* sequence.join(''): the characters of the resulting string
join(seq) == joinFrom(seq, 1, <<>>)

ShuffleIdle ==
    /\ heap = <<>>
    /\ quiz = [title |-> "", topics |-> <<>>, answer_key |-> 0]
    /\ input0 = [heap |-> heap, quiz |-> quiz]
    /\ spc = "idle"
    /\ flatIndex = 0
    /\ updatedAnswerKey = 0
    /\ mapped = <<>>
    /\ shuffled = <<>>
    /\ error = <<>>
    /\ result = <<>>

RequestedLengths == {10, 30}

InitGen ==
    /\ ShuffleIdle
    /\ PipeIdle
    /\ RouteIdle
    /\ length \in RequestedLengths
    /\ letters = <<>>
    /\ gpc = "start"
    /\ attempts = 0
    /\ hasConsecutive = FALSE
    /\ scanIndex = 0
    /\ partner = 0
    /\ sequence = <<>>
    /\ validation = <<>>
    /\ regenerations = 0
    /\ generated = <<>>

\* lines 7-23: build the 32 letters, shuffle them, set up the repair loop
Generate ==
    /\ gpc = "start"
    /\ \E r \in RandomValues : letters' = reshuffle(initialLetters, r)
    /\ attempts' = 0
    /\ hasConsecutive' = FALSE
    /\ scanIndex' = 0
    /\ partner' = 0
    /\ sequence' = <<>>
    /\ validation' = <<>>
    /\ gpc' = "while"
    /\ UNCHANGED <<length, regenerations, generated>>
    /\ UNCHANGED shuffleVars
    /\ UNCHANGED routeVars
    /\ UNCHANGED pipeVars

\* lines 25-29: the test of the while loop and the start of a scan
While ==
    /\ gpc = "while"
    /\ IF attempts < maxAttempts
       THEN /\ hasConsecutive' = FALSE
            /\ scanIndex' = 0
            /\ gpc' = "for"
       ELSE /\ gpc' = "trim"
            /\ UNCHANGED <<hasConsecutive, scanIndex>>
    /\ UNCHANGED <<length, letters, attempts, partner, sequence, validation, regenerations, generated>>
    /\ UNCHANGED shuffleVars
    /\ UNCHANGED routeVars
    /\ UNCHANGED pipeVars

\* lines 29-58: one iteration of the scan, at index i
Scan ==
    /\ gpc = "for"
    /\ scanIndex < Len(letters) - 1
    /\ IF letters[scanIndex + 1] = letters[scanIndex + 2]
       THEN /\ hasConsecutive' = TRUE
            /\ IF swapPartners(letters, scanIndex) # {}
               THEN /\ letters' = swap(letters, scanIndex + 1, firstPartner(letters, scanIndex))
                    /\ partner' = firstPartner(letters, scanIndex)
                    /\ scanIndex' = scanIndex + 1
                    /\ UNCHANGED <<gpc, attempts>>
               ELSE \* lines 49-56 and 60-64: reshuffle, leave the scan, count the pass
                    /\ \E r \in RandomValues : letters' = reshuffle(letters, r)
                    /\ attempts' = attempts + 1
                    /\ gpc' = "while"
                    /\ partner' = 0
                    /\ UNCHANGED scanIndex
       ELSE /\ scanIndex' = scanIndex + 1
            /\ partner' = 0
            /\ UNCHANGED <<letters, hasConsecutive, gpc, attempts>>
    /\ UNCHANGED <<length, sequence, validation, regenerations, generated>>
    /\ UNCHANGED shuffleVars
    /\ UNCHANGED routeVars
    /\ UNCHANGED pipeVars

\* lines 60-64: the scan reached the end of the array
ScanEnd ==
    /\ gpc = "for"
    /\ scanIndex >= Len(letters) - 1
    /\ IF ~hasConsecutive
       THEN /\ gpc' = "trim"
            /\ UNCHANGED attempts
       ELSE /\ attempts' = attempts + 1
            /\ gpc' = "while"
    /\ partner' = 0
    /\ UNCHANGED <<length, letters, hasConsecutive, scanIndex, sequence, validation, regenerations,
                   generated>>
    /\ UNCHANGED shuffleVars
    /\ UNCHANGED routeVars
    /\ UNCHANGED pipeVars

\* lines 67-78: trim, validate, and either return the string or start over
TrimAndValidate ==
    /\ gpc = "trim"
    /\ sequence' = slice(letters, 0, SequenceLength)
    /\ validation' = <<validateAnswerSequence(sequence')>>
    /\ IF ~validation'[1].isValid
       THEN /\ regenerations < MaxRegenerations
            /\ regenerations' = regenerations + 1
            /\ gpc' = "start"
            /\ UNCHANGED generated
       ELSE /\ generated' = join(sequence')
            /\ gpc' = "returned"
            /\ UNCHANGED regenerations
    /\ UNCHANGED <<length, letters, attempts, hasConsecutive, scanIndex, partner>>
    /\ UNCHANGED shuffleVars
    /\ UNCHANGED routeVars
    /\ UNCHANGED pipeVars

NextGen == Generate \/ While \/ Scan \/ ScanEnd \/ TrimAndValidate

SpecGen == InitGen /\ [][NextGen]_vars

(***************************************************************************)
(* validateAnswerSequence called on its own (it is exported): the          *)
(* argument is the pattern abcdabcd... of a length around 30 with up to    *)
(* MaxEdits entries replaced by a letter or by another string.             *)
(***************************************************************************)
ValidatedLengths == {SequenceLength - 1, SequenceLength, SequenceLength + 1}

pattern(len) == [k \in 1..len |-> LETTERS[((k - 1) % 4) + 1]]

RECURSIVE edited(_, _)
edited(seqs, n) ==
    IF n = 0 THEN seqs
    ELSE edited(seqs \cup {[s EXCEPT ![k] = x] :
                              s \in seqs, k \in 1..(SequenceLength - 1), x \in Alphabet \cup BadSymbols},
                n - 1)

InputSequences == edited({pattern(len) : len \in ValidatedLengths}, MaxEdits)

InitValidate ==
    /\ ShuffleIdle
    /\ PipeIdle
    /\ RouteIdle
    /\ length = 0
    /\ letters = <<>>
    /\ gpc = "validate"
    /\ attempts = 0
    /\ hasConsecutive = FALSE
    /\ scanIndex = 0
    /\ partner = 0
    /\ sequence \in InputSequences
    /\ validation = <<>>
    /\ regenerations = 0
    /\ generated = <<>>

\* lines 84-122: the call validateAnswerSequence(sequence) returns
Validate ==
    /\ gpc = "validate"
    /\ validation' = <<validateAnswerSequence(sequence)>>
    /\ gpc' = "validated"
    /\ UNCHANGED <<length, letters, attempts, hasConsecutive, scanIndex, partner, sequence,
                   regenerations, generated>>
    /\ UNCHANGED shuffleVars
    /\ UNCHANGED routeVars
    /\ UNCHANGED pipeVars

NextValidate == Validate

SpecValidate == InitValidate /\ [][NextValidate]_vars

(***************************************************************************)
(* openai.ts: generateCompleteRetrievalQuiz, convertQuizToGeneratedQuestions, *)
(* generateAndShuffleRetrievalQuiz                                         *)
(***************************************************************************)
NumImages == 3   \* line 114: images: [string, string, string]

WellFormedOptions == <<"Paris", "London", "Paris", "Berlin">>

\* What a call of generateTopicQuestions can resolve to (lines 104-106: the
\* parsed JSON of the model's reply, returned unchecked): one question and a
\* key of its own letter; the same with a second key entry; with no key
\* entry; with three options; with the key entry e.
TopicReplies(t) ==
    LET reply(options, key) ==
            [name |-> TopicNames[t],
             questions |-> <<[question |-> <<"Q", t, 1>>, options |-> options]>>,
             answer_key |-> key]
    IN  { reply(WellFormedOptions, <<LETTERS[t]>>),
          reply(WellFormedOptions, <<LETTERS[t], "d">>),
          reply(WellFormedOptions, <<>>),
          reply(<<"Paris", "London", "Berlin">>, <<LETTERS[t]>>),
          reply(WellFormedOptions, <<"e">>) }

InitPipeline ==
    /\ GenIdle
    /\ ShuffleIdle
    /\ RouteIdle
    /\ topicCalls = [t \in 1..NumImages |-> [status |-> "pending", reply |-> <<>>]]
    /\ ppc = "awaiting"
    /\ outOfOrder = FALSE
    /\ originalQuiz = <<>>
    /\ output = <<>>

\* a wait that ends with the first fulfilled promise
someFulfilled(calls) == \E t \in DOMAIN calls : calls[t].status = "fulfilled"

\* the promises Promise.all waits for are all fulfilled
allFulfilled(calls) == \A t \in DOMAIN calls : calls[t].status = "fulfilled"

RECURSIVE resultsFrom(_, _)
resultsFrom(calls, t) ==
    IF t > Len(calls) THEN <<>>
    ELSE calls[t].reply \o resultsFrom(calls, t + 1)

\* an array of the replies in the reverse of the order of topicPromises
topicResultsReversed(calls) ==
    [k \in 1..Len(calls) |-> calls[Len(calls) + 1 - k].reply[1]]

\* line 153: the array Promise.all resolves to, in the order of topicPromises
topicResults(calls) == resultsFrom(calls, 1)

RECURSIVE combinedAnswerKey(_)
\* lines 156-159: combinedAnswerKey.push(...topic.answer_key) for every topic
combinedAnswerKey(results) ==
    IF results = <<>> THEN <<>>
    ELSE Head(results).answer_key \o combinedAnswerKey(Tail(results))

RECURSIVE optionsArrays(_)
\* the options arrays of the replies, in flattened question order
optionsArrays(results) ==
    IF results = <<>> THEN <<>>
    ELSE [q \in 1..Len(Head(results).questions) |-> Head(results).questions[q].options]
         \o optionsArrays(Tail(results))

RECURSIVE quizTopics(_, _)
\* lines 164-167: { name: topic.name, questions: topic.questions }; the
\* options array of the next question is at address next
quizTopics(results, next) ==
    IF results = <<>> THEN <<>>
    ELSE LET topic == Head(results)
         IN  <<[name |-> topic.name,
                questions |-> [q \in 1..Len(topic.questions) |->
                                 [question |-> topic.questions[q].question,
                                  options |-> next + q - 1]]]>>
             \o quizTopics(Tail(results), next + Len(topic.questions))

\* the reading of the key at the index of the question within its topic
convertTopicByOwnIndex(h, topic, answer_key, questionIndex) ==
    [qIndex \in 1..Len(topic.questions) |->
        LET answerLetter == keyAt(answer_key, qIndex - 1)
        IN  [text |-> topic.questions[qIndex].question,
             type |-> "MULTIPLE_CHOICE",
             options |-> h[topic.questions[qIndex].options],
             correctAnswer |-> IF lookupType(answerLetter) = "number"
                               THEN <<letterToIndex[answerLetter]>> ELSE <<>>,
             maxMarks |-> 1,
             topic |-> topic.name,
             questionNumber |-> qIndex]]

\* lines 197-212: the questions pushed for one topic; questionIndex is its
\* value at the first question of the topic.  correctAnswer is <<n>> for the
\* number n and <<>> when the lookup yields no number.
convertTopic(h, topic, answer_key, questionIndex) ==
    [qIndex \in 1..Len(topic.questions) |->
        LET answerLetter == keyAt(answer_key, questionIndex + qIndex - 1)
        IN  [text |-> topic.questions[qIndex].question,
             type |-> "MULTIPLE_CHOICE",
             options |-> h[topic.questions[qIndex].options],
             correctAnswer |-> IF lookupType(answerLetter) = "number"
                               THEN <<letterToIndex[answerLetter]>> ELSE <<>>,
             maxMarks |-> 1,
             topic |-> topic.name,
             questionNumber |-> qIndex]]

RECURSIVE convertFrom(_, _, _, _)
convertFrom(h, topics, answer_key, questionIndex) ==
    IF topics = <<>> THEN <<>>
    ELSE convertTopic(h, Head(topics), answer_key, questionIndex)
         \o convertFrom(h, Tail(topics), answer_key, questionIndex + Len(Head(topics).questions))

\* lines 180-216
convertQuizToGeneratedQuestions(h, q) == convertFrom(h, q.topics, h[q.answer_key], 0)

\* lines 60-107: one of the three calls of generateTopicQuestions settles; it
\* rejects when the request fails, the reply is empty or is no JSON
Settle(t) ==
    /\ ppc \in {"awaiting", "failed"}
    /\ topicCalls[t].status = "pending"
    /\ \/ \E reply \in TopicReplies(t) :
            topicCalls' = [topicCalls EXCEPT ![t] = [status |-> "fulfilled", reply |-> <<reply>>]]
       \/ topicCalls' = [topicCalls EXCEPT ![t] = [status |-> "rejected", reply |-> <<>>]]
    /\ outOfOrder' = (outOfOrder \/ \E e \in 1..(t - 1) : topicCalls[e].status = "pending")
    /\ UNCHANGED <<ppc, originalQuiz, output>>
    /\ UNCHANGED shuffleVars
    /\ UNCHANGED genVars
    /\ UNCHANGED routeVars

\* line 153 when a promise has rejected: Promise.all rejects, the await
\* throws, and so does the await of line 234
Reject ==
    /\ ppc = "awaiting"
    /\ \E t \in DOMAIN topicCalls : topicCalls[t].status = "rejected"
    /\ ppc' = "failed"
    /\ UNCHANGED <<topicCalls, outOfOrder, originalQuiz, output>>
    /\ UNCHANGED shuffleVars
    /\ UNCHANGED genVars
    /\ UNCHANGED routeVars

\* lines 153-174 and 234-238: Promise.all resolves, the quiz is put together
\* and shuffleQuiz is called with it
Collect ==
    /\ ppc = "awaiting"
    /\ allFulfilled(topicCalls)
    /\ LET results == topicResults(topicCalls)
           arrays == optionsArrays(results)
       IN  /\ heap' = Append(arrays, combinedAnswerKey(results))
           /\ quiz' = [title |-> "Retrieval Quiz",
                       topics |-> quizTopics(results, 1),
                       answer_key |-> Len(arrays) + 1]
    /\ input0' = [heap |-> heap', quiz |-> quiz']
    /\ originalQuiz' = <<quiz'>>
    /\ spc' = "call"
    /\ ppc' = "shuffling"
    /\ UNCHANGED <<flatIndex, updatedAnswerKey, mapped, shuffled, error, result>>
    /\ UNCHANGED <<topicCalls, outOfOrder, output>>
    /\ UNCHANGED genVars
    /\ UNCHANGED routeVars

\* lines 241-247: shuffleQuiz has returned; convert and return
Convert ==
    /\ ppc = "shuffling"
    /\ spc = "returned"
    /\ output' = <<[questions |-> convertQuizToGeneratedQuestions(heap, result[1]),
                    originalAnswerKey |-> heap[originalQuiz[1].answer_key],
                    shuffledAnswerKey |-> heap[result[1].answer_key]]>>
    /\ ppc' = "returned"
    /\ UNCHANGED <<topicCalls, outOfOrder, originalQuiz>>
    /\ UNCHANGED shuffleVars
    /\ UNCHANGED genVars
    /\ UNCHANGED routeVars

\* line 238: shuffleQuiz has thrown; the error leaves generateAndShuffleRetrievalQuiz
Propagate ==
    /\ ppc = "shuffling"
    /\ spc = "thrown"
    /\ ppc' = "failed"
    /\ UNCHANGED <<topicCalls, outOfOrder, originalQuiz, output>>
    /\ UNCHANGED shuffleVars
    /\ UNCHANGED genVars
    /\ UNCHANGED routeVars

NextPipeline ==
    \/ \E t \in 1..NumImages : Settle(t)
    \/ Reject
    \/ Collect
    \/ Call
    \/ MapQuestion
    \/ Convert
    \/ Propagate

SpecPipeline == InitPipeline /\ [][NextPipeline]_vars

(***************************************************************************)
(* The route handlers that upload images: POST of the mini-quiz route      *)
(* (unnamed/part_001) and POST of app/api/upload-images/route.ts.  An      *)
(* awaited call to an object store or to the question generator either     *)
(* succeeds or throws; an upload that succeeds leaves an object in the     *)
(* store, a delete that succeeds removes it.                               *)
(***************************************************************************)
RequiredFiles == 3   \* upload-images/route.ts line 45: files.length !== 3

FileKinds == {"none", "image", "text", "large"}
FileCounts == {0, RequiredFiles - 1, RequiredFiles, RequiredFiles + 1}

\* the object the mini-quiz route stores, and the object upload k stores
r2Object == <<"r2", 1>>
blobObject(k) == <<"blob", k>>

blobUrl(k) == <<"https", k>>
base64Url(k) == <<"data", k>>

InitRoutes ==
    /\ GenIdle
    /\ ShuffleIdle
    /\ PipeIdle
    /\ \/ \E formOk \in BOOLEAN, file \in FileKinds, apiKey \in BOOLEAN :
            request = [route |-> "mini", formOk |-> formOk, file |-> file, apiKey |-> apiKey,
                       files |-> 0, blobToken |-> FALSE]
       \/ \E formOk \in BOOLEAN, files \in FileCounts, blobToken \in BOOLEAN :
            request = [route |-> "upload", formOk |-> formOk, file |-> "none", apiKey |-> FALSE,
                       files |-> files, blobToken |-> blobToken]
    /\ rpc = "start"
    /\ storage = {}
    /\ uploadedKey = <<>>
    /\ uploads = <<>>
    /\ deleteAttempts = 0
    /\ response = <<>>

\* return NextResponse.json(body, { status })
respond(status, success, imageUrls) ==
    /\ response' = <<[status |-> status, success |-> success, imageUrls |-> imageUrls]>>
    /\ rpc' = "responded"

othersUnchanged ==
    /\ UNCHANGED shuffleVars
    /\ UNCHANGED genVars
    /\ UNCHANGED pipeVars

\* part_001 lines 10-57: read the form, validate, start the upload
MiniStart ==
    /\ request.route = "mini"
    /\ rpc = "start"
    /\ IF ~request.formOk
       THEN /\ rpc' = "catch"
            /\ UNCHANGED response
       ELSE IF request.file # "image"
       THEN respond(400, FALSE, <<>>)
       ELSE IF ~request.apiKey
       THEN respond(500, FALSE, <<>>)
       ELSE /\ rpc' = "uploading"
            /\ UNCHANGED response
    /\ UNCHANGED <<request, storage, uploadedKey, uploads, deleteAttempts>>
    /\ othersUnchanged

\* part_001 line 58: uploadedKey = await uploadToR2(...)
MiniUploaded ==
    /\ request.route = "mini"
    /\ rpc = "uploading"
    /\ \/ /\ storage' = storage \cup {r2Object}
          /\ uploadedKey' = <<r2Object>>
          /\ rpc' = "signing"
       \/ /\ rpc' = "catch"
          /\ UNCHANGED <<storage, uploadedKey>>
    /\ UNCHANGED <<request, uploads, deleteAttempts, response>>
    /\ othersUnchanged

\* part_001 line 63: await getSignedR2Url(uploadedKey)
MiniSigned ==
    /\ request.route = "mini"
    /\ rpc = "signing"
    /\ rpc' \in {"generating", "catch"}
    /\ UNCHANGED <<request, storage, uploadedKey, uploads, deleteAttempts, response>>
    /\ othersUnchanged

\* part_001 lines 70-83: await generateMiniQuiz(...), then the delete is called
MiniGenerated ==
    /\ request.route = "mini"
    /\ rpc = "generating"
    /\ \/ /\ rpc' = "cleanup"
          /\ deleteAttempts' = deleteAttempts + 1
       \/ /\ rpc' = "catch"
          /\ UNCHANGED deleteAttempts
    /\ UNCHANGED <<request, storage, uploadedKey, uploads, response>>
    /\ othersUnchanged

\* part_001 lines 83-96: the delete has settled (a failure is logged); respond
MiniCleanup ==
    /\ request.route = "mini"
    /\ rpc = "cleanup"
    /\ \/ storage' = storage \ {uploadedKey[1]}
       \/ UNCHANGED storage
    /\ respond(200, TRUE, <<>>)
    /\ UNCHANGED <<request, uploadedKey, uploads, deleteAttempts>>
    /\ othersUnchanged

\* a test that takes every key for null
neverTruthy(key) == FALSE

\* part_001 line 102: if (uploadedKey), false for null
truthy(key) == key # <<>>

\* part_001 lines 98-105 and 112-118: the catch block; it calls the delete
\* when uploadedKey is set, and responds at once when it is not
MiniCatch ==
    /\ request.route = "mini"
    /\ rpc = "catch"
    /\ IF truthy(uploadedKey)
       THEN /\ rpc' = "emergency"
            /\ deleteAttempts' = deleteAttempts + 1
            /\ UNCHANGED response
       ELSE /\ respond(500, FALSE, <<>>)
            /\ UNCHANGED deleteAttempts
    /\ UNCHANGED <<request, storage, uploadedKey, uploads>>
    /\ othersUnchanged

\* part_001 lines 105-118: the emergency delete has settled; respond
MiniEmergency ==
    /\ request.route = "mini"
    /\ rpc = "emergency"
    /\ \/ storage' = storage \ {uploadedKey[1]}
       \/ UNCHANGED storage
    /\ respond(500, FALSE, <<>>)
    /\ UNCHANGED <<request, uploadedKey, uploads, deleteAttempts>>
    /\ othersUnchanged

\* route.ts lines 11-110: read the form, count the files, look for the token;
\* without a token answer with base64 URLs, with one start the three uploads
UploadStart ==
    /\ request.route = "upload"
    /\ rpc = "start"
    /\ IF ~request.formOk \/ request.files # RequiredFiles
       THEN /\ respond(400, FALSE, <<>>)
            /\ UNCHANGED uploads
       ELSE IF ~request.blobToken
       THEN /\ respond(200, TRUE, [k \in 1..request.files |-> base64Url(k)])
            /\ UNCHANGED uploads
       ELSE /\ uploads' = [k \in 1..request.files |-> "pending"]
            /\ rpc' = "uploading"
            /\ UNCHANGED response
    /\ UNCHANGED <<request, storage, uploadedKey, deleteAttempts>>
    /\ othersUnchanged

\* route.ts lines 112-132: the put of one file settles, before or after the
\* handler has responded
UploadSettle(k) ==
    /\ request.route = "upload"
    /\ k \in DOMAIN uploads
    /\ uploads[k] = "pending"
    /\ \/ /\ uploads' = [uploads EXCEPT ![k] = "fulfilled"]
          /\ storage' = storage \cup {blobObject(k)}
       \/ /\ uploads' = [uploads EXCEPT ![k] = "rejected"]
          /\ UNCHANGED storage
    /\ UNCHANGED <<request, rpc, uploadedKey, deleteAttempts, response>>
    /\ othersUnchanged

\* a wait that ends with the first upload that succeeds
someUploaded(ups) == \E k \in DOMAIN ups : ups[k] = "fulfilled"

\* route.ts line 136: Promise.all(uploadPromises) resolves when every upload
\* has succeeded
allUploaded(ups) == \A k \in DOMAIN ups : ups[k] = "fulfilled"

\* route.ts lines 136-145: Promise.all resolves with the URLs in file order
UploadAllDone ==
    /\ request.route = "upload"
    /\ rpc = "uploading"
    /\ allUploaded(uploads)
    /\ respond(200, TRUE, [k \in DOMAIN uploads |-> blobUrl(k)])
    /\ UNCHANGED <<request, storage, uploadedKey, uploads, deleteAttempts>>
    /\ othersUnchanged

\* route.ts lines 147-185: Promise.all rejects; every file is converted to a
\* base64 URL
UploadFallback ==
    /\ request.route = "upload"
    /\ rpc = "uploading"
    /\ \E k \in DOMAIN uploads : uploads[k] = "rejected"
    /\ respond(200, TRUE, [k \in DOMAIN uploads |-> base64Url(k)])
    /\ UNCHANGED <<request, storage, uploadedKey, uploads, deleteAttempts>>
    /\ othersUnchanged

NextRoutes ==
    \/ MiniStart
    \/ MiniUploaded
    \/ MiniSigned
    \/ MiniGenerated
    \/ MiniCleanup
    \/ MiniCatch
    \/ MiniEmergency
    \/ UploadStart
    \/ \E k \in 1..RequiredFiles : UploadSettle(k)
    \/ UploadAllDone
    \/ UploadFallback

SpecRoutes == InitRoutes /\ [][NextRoutes]_vars

(***************************************************************************)
(* Properties of shuffleQuiz, checked under SpecShuffle                    *)
(***************************************************************************)
bagOf(seq) == [t \in {seq[k] : k \in 1..Len(seq)} |-> count(seq, t)]

Finished == spc \in {"returned", "thrown"}
Returned == spc = "returned"
Thrown == spc = "thrown"

inputQuestions == flatten(input0.quiz.topics)
NumQuestions == Len(inputQuestions)
inputOptions(p) == input0.heap[inputQuestions[p].options]
inputKeyIsArray == isArray(input0.heap, input0.quiz.answer_key)
inputKey == input0.heap[input0.quiz.answer_key]
inputAddresses == 1..Len(input0.heap)

outQuestions == flatten(result[1].topics)
outOptions(p) == heap[outQuestions[p].options]
outKey == heap[result[1].answer_key]

\* the 1-based position in shuffled[p] of the option tagged with original index k
positionOf(p, k) == CHOOSE m \in 1..Len(shuffled[p]) : shuffled[p][m].originalIndex = k

\* C1: in a returned quiz, for every question, the option at the position the
\* new key letter names is the option that stood at the original index the
\* input key letter names (identity by original position, not by text).
C1_CorrectOptionFollowsTag ==
    Returned =>
        \A p \in 1..NumQuestions :
            LET k == letterToIndex[inputKey[p]]
                q == letterToIndex[outKey[p]]
            IN  /\ shuffled[p][q + 1].originalIndex = k
                /\ outOptions(p) = texts(shuffled[p])
                /\ \A m \in 1..4 :
                     shuffled[p][m].text = inputOptions(p)[shuffled[p][m].originalIndex + 1]

\* the correct option "Paris" of index 0 moved away, and the other "Paris" took its place
C1_Witness ==
    /\ Returned
    /\ \E p \in 1..NumQuestions :
         /\ inputKey[p] = "a"
         /\ outKey[p] # "a"
         /\ outOptions(p)[1] = inputOptions(p)[1]
         /\ shuffled[p][1].originalIndex = 2

\* C2: the returned answer key has one entry per flattened question, every
\* entry is a letter a-d, and entry p is the letter of the post-shuffle
\* position of the correct option of question p.
C2_KeySynchronized ==
    Returned =>
        /\ Len(outKey) = NumQuestions
        /\ Len(outQuestions) = NumQuestions
        /\ \A p \in 1..NumQuestions :
             /\ outKey[p] \in Alphabet
             /\ outKey[p] = LETTERS[positionOf(p, letterToIndex[inputKey[p]])]

\* two questions in two topics whose correct options ended at different positions
C2_Witness ==
    /\ Returned
    /\ Len(input0.quiz.topics) = 2
    /\ NumQuestions = 2
    /\ Len(input0.quiz.topics[1].questions) = 1
    /\ outKey[1] # outKey[2]
    /\ positionOf(1, letterToIndex[inputKey[1]]) # positionOf(2, letterToIndex[inputKey[2]])

\* C3: for every question of a returned quiz the multiset of option texts is
\* the multiset of the input's option texts.
C3_OptionsArePermutation ==
    Returned =>
        \A p \in 1..NumQuestions :
            /\ Len(outOptions(p)) = Len(inputOptions(p))
            /\ bagOf(outOptions(p)) = bagOf(inputOptions(p))

\* a question whose options came out in another order
C3_Witness ==
    /\ Returned
    /\ \E p \in 1..NumQuestions : outOptions(p) # inputOptions(p)

firstMalformed ==
    CHOOSE p \in 1..NumQuestions :
        /\ Len(inputOptions(p)) # 4
        /\ \A m \in 1..(p - 1) : Len(inputOptions(m)) = 4

someMalformed == \E p \in 1..NumQuestions : Len(inputOptions(p)) # 4

\* C5 as stated, for a quiz that has an answer_key array: when some question
\* has not exactly 4 options the call fails with the malformed-question error
\* naming a malformed question, and returns nothing.
C5_Original ==
    (Finished /\ inputKeyIsArray /\ someMalformed) =>
        /\ Thrown
        /\ result = <<>>
        /\ error[1].kind = "NotFourOptions"
        /\ Len(inputOptions(error[1].number + 1)) # 4

\* C5 as amended: when some question has not exactly 4 options the call fails
\* and returns nothing; the error is the malformed-question error with the
\* flattened index of the first malformed question when the answer key is an
\* array and the key entry of every earlier question is one of a-d, and else
\* it is the error of that earlier failure.
C5_MalformedRejected ==
    (Finished /\ someMalformed) =>
        /\ Thrown
        /\ result = <<>>
        /\ IF /\ inputKeyIsArray
              /\ \A m \in 1..(firstMalformed - 1) : keyAt(inputKey, m - 1) \in Alphabet
           THEN /\ error[1].kind = "NotFourOptions"
                /\ error[1].number = firstMalformed - 1
           ELSE /\ error[1].kind # "NotFourOptions"
                /\ error[1].kind = "NoArrays" \/ error[1].number < firstMalformed

\* the second question is malformed; the first one had been shuffled
C5_Witness ==
    /\ Thrown
    /\ error[1].kind = "NotFourOptions"
    /\ error[1].number = 1
    /\ Len(shuffled) = 1
    /\ result = <<>>

\* C6 as stated, in the part that no quiz is returned: when the input answer
\* key is longer or shorter than the number of questions (one question at
\* least), the call fails and returns nothing.
C6_LengthMismatchRejected ==
    (/\ Finished
     /\ inputKeyIsArray
     /\ NumQuestions >= 1
     /\ Len(inputKey) # NumQuestions) =>
        /\ Thrown
        /\ result = <<>>

\* C7 as stated, for a quiz whose questions all have 4 options: a key entry
\* outside a-d at the position of a question makes the call fail with the
\* invalid-answer-key-entry error naming the symbol and its position.
C7_InvalidEntryRejected ==
    (/\ Finished
     /\ inputKeyIsArray
     /\ ~someMalformed
     /\ \E p \in 1..NumQuestions : p <= Len(inputKey) /\ inputKey[p] \notin Alphabet) =>
        LET bad == CHOOSE p \in 1..NumQuestions :
                      /\ keyAt(inputKey, p - 1) \notin Alphabet
                      /\ \A m \in 1..(p - 1) : keyAt(inputKey, m - 1) \in Alphabet
        IN  /\ Thrown
            /\ result = <<>>
            /\ error[1].kind = "InvalidKeyEntry"
            /\ error[1].symbol = keyAt(inputKey, bad - 1)
            /\ error[1].number = bad

\* C13: a returned quiz has the fields and the title of the input, the same
\* topics in the same order with the same fields and names, and in every topic
\* the same number of questions in the same order with the same fields and
\* question text; only options arrays and the answer key differ.
C13_StructurePreserved ==
    Returned =>
        LET in == input0.quiz
            out == result[1]
        IN  /\ DOMAIN out = DOMAIN in
            /\ out.title = in.title
            /\ Len(out.topics) = Len(in.topics)
            /\ \A t \in 1..Len(in.topics) :
                 /\ [out.topics[t] EXCEPT !.questions = <<>>]
                      = [in.topics[t] EXCEPT !.questions = <<>>]
                 /\ Len(out.topics[t].questions) = Len(in.topics[t].questions)
                 /\ \A q \in 1..Len(in.topics[t].questions) :
                      [out.topics[t].questions[q] EXCEPT !.options = 0]
                        = [in.topics[t].questions[q] EXCEPT !.options = 0]

\* a topic without questions followed by a topic whose one question was
\* reordered and got another key letter
C13_Witness ==
    /\ Returned
    /\ Len(input0.quiz.topics) = 2
    /\ Len(input0.quiz.topics[1].questions) = 0
    /\ Len(result[1].topics[2].questions) = 1
    /\ outOptions(1) # inputOptions(1)
    /\ outKey[1] # inputKey[1]

offending(p) ==
    \/ Len(inputOptions(p)) # 4
    \/ keyAt(inputKey, p - 1) \notin Alphabet

firstOffending ==
    CHOOSE p \in 1..NumQuestions :
        /\ offending(p)
        /\ \A m \in 1..(p - 1) : ~offending(m)

\* C21: when a quiz with an answer_key array has offending questions, the call
\* fails with the error of the first of them in flattened order: the
\* malformed-question error when that question has not 4 options (whatever
\* its key entry is), else an error of its key entry.
C21_FirstOffenderReported ==
    (Finished /\ inputKeyIsArray /\ \E p \in 1..NumQuestions : offending(p)) =>
        /\ Thrown
        /\ IF Len(inputOptions(firstOffending)) # 4
           THEN /\ error[1].kind = "NotFourOptions"
                /\ error[1].number + 1 = firstOffending
           ELSE /\ error[1].kind \in {"InvalidKeyEntry", "NotLocated"}
                /\ error[1].number = firstOffending

\* the first question has three options and the key entry e, and the second
\* question has no key entry: the malformed-question error of the first one
C21_Witness ==
    /\ Thrown
    /\ inputKeyIsArray
    /\ NumQuestions = 2
    /\ Len(inputOptions(1)) = 3
    /\ inputKey = <<"e">>
    /\ error[1].kind = "NotFourOptions"
    /\ error[1].number = 0

\* C22: the errors of the two per-question checks report the question on one
\* scale: the malformed-question error carries the flattened index of the
\* question it was thrown for (C5), and the invalid-answer-key-entry error
\* thrown for the question at the same flattened index carries that number.
C22_CommonScale ==
    (Thrown /\ error[1].kind \in {"NotFourOptions", "InvalidKeyEntry"}) =>
        error[1].number = flatIndex

\* the order Fisher-Yates gives the tags 0, 1, 2, 3 for every draw sequence
tagOrder == [d \in DrawSeqs(4) |-> shuffleArray(<<0, 1, 2, 3>>, d)]

tagOrders == {s \in [1..4 -> 0..3] : \A k \in 0..3 : \E m \in 1..4 : s[m] = k}

\* C12: the 24 draw sequences (j in 0..i for i = 3, 2, 1) map one-to-one onto
\* the 24 orders of four options; whenever a question is shuffled, the order
\* its options take is the image of exactly one draw sequence, and the orders
\* of the questions shuffled before stay as they were.
C12_FisherYatesBijection ==
    [][Len(shuffled') = Len(shuffled) + 1 =>
         LET p == Len(shuffled')
             out == [k \in 1..4 |-> shuffled'[p][k].originalIndex]
         IN  /\ Cardinality(DrawSeqs(4)) = 24
             /\ Cardinality(tagOrders) = 24
             /\ {tagOrder[d] : d \in DrawSeqs(4)} = tagOrders
             /\ Len(shuffled'[p]) = 4
             /\ Cardinality({d \in DrawSeqs(4) : tagOrder[d] = out}) = 1
             /\ \A k \in 1..4 : shuffled'[p][k].text = inputOptions(p)[out[k] + 1]
             /\ SubSeq(shuffled', 1, Len(shuffled)) = shuffled]_vars

\* two questions with the same options came out in different orders, the
\* second one reversed
C12_Witness ==
    /\ Returned
    /\ NumQuestions = 2
    /\ inputOptions(1) = inputOptions(2)
    /\ shuffled[1] # shuffled[2]
    /\ [k \in 1..4 |-> shuffled[2][k].originalIndex] = <<3, 2, 1, 0>>

(***************************************************************************)
(* Properties of the sequence generator, checked under SpecGen             *)
(***************************************************************************)
GenReturned == gpc = "returned"

\* C8: a returned sequence has no two adjacent equal symbols.
C8_NoAdjacentDuplicates ==
    GenReturned =>
        \A k \in 1..(Len(generated) - 1) : generated[k] # generated[k + 1]

\* returned although the repair budget was used up
C8_Witness ==
    /\ GenReturned
    /\ attempts = maxAttempts
    /\ Len(generated) > 1

\* C9: in a returned sequence every letter occurs 7 or 8 times and the four
\* counts add up to 30.
C9_NearUniform ==
    GenReturned =>
        /\ \A l \in Alphabet : count(generated, l) \in {7, 8}
        /\ count(generated, "a") + count(generated, "b")
             + count(generated, "c") + count(generated, "d") = 30

\* returned by a regeneration, after a first sequence was discarded
C9_Witness ==
    /\ GenReturned
    /\ regenerations > 0
    /\ \E l \in Alphabet : count(generated, l) = 7

C11_ExhaustionIsTerminal ==
    [][(/\ gpc = "trim"
        /\ attempts = maxAttempts
        /\ ~validateAnswerSequence(slice(letters, 0, SequenceLength)).isValid)
       => gpc' # "start"]_vars

\* the scan step just taken swapped letters[i + 1] with letters[partner]
JustSwapped == gpc = "for" /\ partner # 0

\* letters[a] !== letters[b], 0-based
differ(a, b) == letters[a + 1] # letters[b + 1]

\* C18: right after a repair swap of positions i+1 and j, every
\* adjacent pair that involves position i+1 or position j holds two different
\* letters: (i, i+1), (i+1, i+2), (j-1, j) and (j, j+1).
C18_TouchedPairsDiffer ==
    JustSwapped =>
        LET i == scanIndex - 1
            j == partner
        IN  /\ differ(i, i + 1)
            /\ differ(i + 1, i + 2)
            /\ differ(j - 1, j)
            /\ j < Len(letters) - 1 => differ(j, j + 1)

\* the scan stands at a duplicate (i, i+1) and no position j > i+1 of the tail
\* passes the three tests of the inner loop
NoValidPartner ==
    /\ gpc = "for"
    /\ scanIndex < Len(letters) - 1
    /\ ~differ(scanIndex, scanIndex + 1)
    /\ \A j \in (scanIndex + 2)..(Len(letters) - 1) :
         \/ ~differ(j - 1, scanIndex + 1)
         \/ (j < Len(letters) - 1 /\ ~differ(j + 1, scanIndex + 1))
         \/ ~differ(scanIndex, j)

\* C19: a step taken at a duplicate without a valid swap partner leaves the
\* scan, reshuffles the whole array and counts the pass; a pass starts at
\* index 0 and only while fewer than 100 passes are counted; the count never
\* exceeds 100, and at 100 the loop is left for the trim whatever the array
\* holds.
C19_AbandonAndBudget ==
    [][/\ NoValidPartner =>
            /\ gpc' = "while"
            /\ attempts' = attempts + 1
            /\ \E r \in RandomValues : letters' = reshuffle(letters, r)
       /\ (gpc = "while" /\ attempts < maxAttempts) => (gpc' = "for" /\ scanIndex' = 0)
       /\ (gpc = "while" /\ attempts >= maxAttempts) => (gpc' = "trim" /\ letters' = letters)
       /\ gpc' = "for" => attempts' < maxAttempts
       /\ attempts' <= maxAttempts]_vars

\* the scan of the last pass was abandoned midway; the loop is about to be
\* left with duplicates in the array
C19_Witness ==
    /\ gpc = "while"
    /\ attempts = maxAttempts
    /\ hasConsecutive
    /\ scanIndex < Len(letters) - 1
    /\ consecutiveErrors(letters) # {}

\* the repair loop is left, or was left, by the break of a scan that found no
\* adjacent duplicate
CleanExit == gpc = "trim" /\ ~hasConsecutive

\* C28: when the repair loop is left because a scan found no adjacent
\* duplicate, the working array has no adjacent duplicate, its two last
\* letters differ, the 30-letter prefix holds two letters 7 times and two
\* letters 8 times and passes the validation, and the next step returns the
\* sequence without a regeneration; a regeneration starts only when the loop
\* was left with 100 passes counted.
C28_CleanExitIsReturned ==
    [][/\ (gpc = "for" /\ gpc' = "trim") =>
            /\ ~hasConsecutive'
            /\ consecutiveErrors(letters') = {}
            /\ letters'[Len(letters') - 1] # letters'[Len(letters')]
       /\ CleanExit =>
            /\ validateAnswerSequence(slice(letters, 0, SequenceLength)).isValid
            /\ Cardinality({l \in Alphabet : count(sequence', l) = MinCount}) = 2
            /\ Cardinality({l \in Alphabet : count(sequence', l) = MaxCount}) = 2
            /\ validation'[1].isValid
            /\ gpc' = "returned"
            /\ regenerations' = regenerations
       /\ regenerations' # regenerations =>
            /\ gpc = "trim"
            /\ hasConsecutive
            /\ attempts = maxAttempts]_vars

\* returned at once after a pass that found nothing to repair, which followed
\* passes that repaired duplicates
C28_Witness ==
    /\ GenReturned
    /\ ~hasConsecutive
    /\ attempts > 0
    /\ attempts < maxAttempts
    /\ regenerations = 0

\* the scan has reached the end of the array (line 29: i = letters.length - 1)
ScanComplete == scanIndex >= Len(letters) - 1

\* C29: during a scan the pairs before index i hold different letters, so a
\* scan that reaches the end of the array, every duplicate it met having been
\* swapped away, leaves no adjacent duplicate in the whole array; a pass over
\* an array without duplicates changes nothing and leaves the repair loop.
C29_CompletedScanIsClean ==
    [][/\ gpc' = "for" =>
            \A k \in 0..(scanIndex' - 1) : letters'[k + 1] # letters'[k + 2]
       /\ (gpc = "for" /\ ScanComplete) => consecutiveErrors(letters') = {}
       /\ (gpc = "while" /\ ScanComplete /\ gpc' = "for") =>
            (consecutiveErrors(letters') = {} /\ ~hasConsecutive')
       /\ (gpc = "for" /\ ~hasConsecutive /\ consecutiveErrors(letters) = {}) =>
            /\ letters' = letters
            /\ ~hasConsecutive'
            /\ gpc' \in {"for", "trim"}
            /\ attempts' = attempts]_vars

\* a scan has reached the end of the array after it swapped duplicates away;
\* the pass is counted and the array holds no adjacent duplicate
C29_Witness ==
    /\ gpc = "while"
    /\ ScanComplete
    /\ hasConsecutive
    /\ attempts > 0
    /\ attempts < maxAttempts
    /\ consecutiveErrors(letters) = {}

\* C30: from the first shuffle on, the working array has 32 elements, 8 of
\* each letter a, b, c, d, and nothing else; every step that changes it
\* within one call (a repair swap, a reshuffle) permutes it.
C30_EightOfEach ==
    [][/\ letters' # <<>> =>
            /\ Len(letters') = 4 * LettersEach
            /\ \A l \in Alphabet : count(letters', l) = LettersEach
            /\ \A k \in 1..Len(letters') : letters'[k] \in Alphabet
       /\ (letters # <<>> /\ letters' # letters) =>
            /\ bagOf(letters') = bagOf(letters)
            /\ \/ gpc = "start"
               \/ (gpc = "for" /\ letters[scanIndex + 1] = letters[scanIndex + 2])]_vars

\* a scan was abandoned at a duplicate without a swap partner and the array
\* was reshuffled: it is not in the order it was built in and still holds 8
\* of each letter
C30_Witness ==
    /\ gpc = "while"
    /\ attempts > 0
    /\ hasConsecutive
    /\ ~ScanComplete
    /\ letters # initialLetters
    /\ \A l \in Alphabet : count(letters, l) = LettersEach

(***************************************************************************)
(* Properties of validateAnswerSequence, checked under SpecValidate        *)
(***************************************************************************)
Validated == gpc = "validated"

\* C27: the verdict has isValid = TRUE exactly when the sequence has 30
\* entries, no two adjacent entries are equal, every entry is one of a, b, c,
\* d, and every letter occurs 7 or 8 times; any other verdict has errors.
C27_ValidExactlyWhen ==
    Validated =>
        /\ validation[1].isValid <=>
             /\ Len(sequence) = SequenceLength
             /\ \A k \in 1..(Len(sequence) - 1) : sequence[k] # sequence[k + 1]
             /\ \A k \in 1..Len(sequence) : sequence[k] \in Alphabet
             /\ \A l \in Alphabet : count(sequence, l) \in MinCount..MaxCount
        /\ ~validation[1].isValid => validation[1].errors # {}

(***************************************************************************)
(* Properties of generateAndShuffleRetrievalQuiz, checked under            *)
(* SpecPipeline                                                            *)
(***************************************************************************)
PipelineReturned == ppc = "returned"

\* C14: whenever shuffleQuiz has been called, the three topic calls are all
\* fulfilled and the quiz holds, in the order of the images, one topic per
\* call with the questions of its reply; the map goes over the flattened
\* questions one by one, never shuffling a question a second time, and a
\* returned quiz has every question shuffled.
C14_ShuffleAfterCollection ==
    [][/\ spc' # "idle" =>
            /\ \A t \in 1..NumImages : topicCalls'[t].status = "fulfilled"
            /\ Len(quiz'.topics) = NumImages
            /\ \A t \in 1..NumImages :
                 /\ quiz'.topics[t].name = topicCalls'[t].reply[1].name
                 /\ Len(quiz'.topics[t].questions) = Len(topicCalls'[t].reply[1].questions)
       /\ Len(shuffled') = flatIndex'
       /\ flatIndex' \in {flatIndex, flatIndex + 1}
       /\ SubSeq(shuffled', 1, Len(shuffled)) = shuffled
       /\ ppc' = "returned" =>
            /\ flatIndex' = Len(flatten(quiz'.topics))
            /\ Len(output'[1].questions) = flatIndex']_vars

\* a quiz was returned after the questions of the three topics were shuffled
C14_Witness ==
    /\ PipelineReturned
    /\ Len(shuffled) = NumImages
    /\ Len(output[1].questions) = NumImages

C17_QuestionInvariant ==
    PipelineReturned =>
        \A p \in 1..Len(output[1].questions) :
            LET q == output[1].questions[p]
                designated == letterToIndex[output[1].originalAnswerKey[p]]
            IN  /\ Len(q.options) = 4
                /\ Len(q.correctAnswer) = 1
                /\ q.correctAnswer[1] \in 0..3
                /\ q.options = texts(shuffled[p])
                /\ shuffled[p][q.correctAnswer[1] + 1].originalIndex = designated
                /\ q.options[q.correctAnswer[1] + 1] = inputOptions(p)[designated + 1]
                /\ \A m \in 1..4 :
                     shuffled[p][m].text = inputOptions(p)[shuffled[p][m].originalIndex + 1]

\* the correct options of the second and third question ended at different
\* positions, neither at the position the original key names
C17_Witness ==
    /\ PipelineReturned
    /\ Len(output[1].questions) = NumImages
    /\ output[1].questions[2].correctAnswer # output[1].questions[3].correctAnswer
    /\ output[1].shuffledAnswerKey[2] # output[1].originalAnswerKey[2]
    /\ output[1].shuffledAnswerKey[3] # output[1].originalAnswerKey[3]

\* the number of questions the replies of the topics before topic t hold
RECURSIVE questionsBefore(_)
questionsBefore(t) ==
    IF t <= 1 THEN 0
    ELSE questionsBefore(t - 1) + Len(topicCalls[t - 1].reply[1].questions)

\* C23: in a returned result, the key letter used for a question is the
\* letter the reply of the question's own topic gave at the position the
\* question has within that topic, whatever the lengths of the answer keys of
\* the replies are.
C23_OwnTopicLetterUsed ==
    PipelineReturned =>
        \A t \in 1..NumImages :
            \A q \in 1..Len(topicCalls[t].reply[1].questions) :
                LET p == questionsBefore(t) + q
                    own == keyAt(topicCalls[t].reply[1].answer_key, q - 1)
                    correct == output[1].questions[p].correctAnswer[1]
                IN  /\ output[1].originalAnswerKey[p] = own
                    /\ shuffled[p][correct + 1].originalIndex = letterToIndex[own]

\* C24: once Promise.all has resolved, the quiz holds one topic per image in
\* the order of the images, topic k with the name and the questions of the
\* reply to the call made for images[k], and the combined answer key is the
\* answer keys of these replies one after the other in the same order, in
\* whatever order the three calls settled.
C24_InputOrderKept ==
    ppc \in {"shuffling", "returned"} =>
        LET q == originalQuiz[1]
            reply(k) == topicCalls[k].reply[1]
        IN  /\ Len(q.topics) = NumImages
            /\ \A k \in 1..NumImages :
                 /\ q.topics[k].name = reply(k).name
                 /\ Len(q.topics[k].questions) = Len(reply(k).questions)
                 /\ \A n \in 1..Len(reply(k).questions) :
                      /\ q.topics[k].questions[n].question = reply(k).questions[n].question
                      /\ input0.heap[q.topics[k].questions[n].options]
                           = reply(k).questions[n].options
            /\ input0.heap[q.answer_key]
                 = reply(1).answer_key \o reply(2).answer_key \o reply(3).answer_key

\* the quiz was returned after a call for a later image had settled before
\* the call for an earlier image
C24_Witness ==
    /\ PipelineReturned
    /\ outOfOrder
    /\ Len(originalQuiz[1].topics) = NumImages
    /\ output[1].originalAnswerKey = <<"a", "b", "c">>

(***************************************************************************)
(* Properties of the route handlers, checked under SpecRoutes              *)
(***************************************************************************)
Responded == rpc = "responded"

\* C16: when a handler has responded, no object it uploaded is left in the
\* object store.
C16_NothingLeftInStorage ==
    Responded => storage = {}

\* C25: in the mini-quiz route no delete is called while the upload has not
\* succeeded, never more than one delete is called, and when the handler has
\* responded after a successful upload, with success or with an error, the
\* delete was called exactly once.
C25_DeleteAttemptedOnce ==
    request.route = "mini" =>
        /\ uploadedKey = <<>> => deleteAttempts = 0
        /\ deleteAttempts <= 1
        /\ Responded => deleteAttempts = (IF uploadedKey # <<>> THEN 1 ELSE 0)
        /\ (Responded /\ response[1].success) => deleteAttempts = 1

\* C26: in the upload-images route a success response carries one URL per
\* submitted file, 3 in all, in the order of the files, and these are the Blob
\* URLs of the three files, all three uploads having succeeded, or the
\* base64 URLs of the three files; after an upload has failed the success
\* response carries the base64 URLs; and a request that has not exactly 3
\* files is answered with status 400 and no upload is ever started for it.
C26_AllBlobOrAllBase64 ==
    request.route = "upload" =>
        /\ (Responded /\ response[1].success) =>
              LET urls == response[1].imageUrls
              IN  /\ request.files = RequiredFiles
                  /\ Len(urls) = RequiredFiles
                  /\ \/ /\ \A k \in 1..RequiredFiles : urls[k] = blobUrl(k)
                        /\ \A k \in 1..RequiredFiles : uploads[k] = "fulfilled"
                     \/ \A k \in 1..RequiredFiles : urls[k] = base64Url(k)
                  /\ (\E k \in DOMAIN uploads : uploads[k] = "rejected") =>
                        \A k \in 1..RequiredFiles : urls[k] = base64Url(k)
        /\ request.files # RequiredFiles =>
              /\ uploads = <<>>
              /\ storage = {}
              /\ Responded => (response[1].status = 400 /\ ~response[1].success)

\* the second upload succeeded and the third failed, and the handler answered
\* with the base64 URLs of the three files
C26_Witness ==
    /\ request.route = "upload"
    /\ Responded
    /\ response[1].success
    /\ Len(uploads) = RequiredFiles
    /\ uploads[2] = "fulfilled"
    /\ uploads[3] = "rejected"
    /\ response[1].imageUrls = <<base64Url(1), base64Url(2), base64Url(3)>>

\* the handler answered with an error after the upload had succeeded and the
\* emergency delete had been called, which left the object in the bucket
C25_Witness ==
    /\ request.route = "mini"
    /\ Responded
    /\ response[1].status = 500
    /\ uploadedKey # <<>>
    /\ deleteAttempts = 1
    /\ storage # {}

====
